---- MODULE Spec2Model ----
(***************************************************************************)
(* State-machine model of the simulation core of the rail shooter, tuned   *)
(* variant (src/unnamed/part_000): the React component App, its            *)
(* simulation effect (scene setup, input listeners, animate loop), its     *)
(* weapons and startGame.                                                  *)
(*                                                                         *)
(* Units.  Time is in milliseconds.  World coordinates are in tenths of a  *)
(* world unit (PLAYER_HEIGHT 1.5 is 15, the unibeam radius 80 is 800).     *)
(*                                                                         *)
(* Clocks.  A timestamp the code keeps (lastShotTimeRef, waveStartTimeRef)  *)
(* is held as its age, Date.now() minus the timestamp, saturated at the     *)
(* value the code compares it with; the code reads the timestamps only in  *)
(* such differences.                                                        *)
(*                                                                         *)
(* Frames.  A frame comes 100 ms after the one before it, which puts delta  *)
(* at its clamp of 0.1 s, or after a stall of a whole wave duration.       *)
(*                                                                         *)
(* React.  setGameState(updater) queues the updater; the queue is run in   *)
(* call order, each updater on the result of the one before, when the      *)
(* component renders after the handler that queued it.  The simulation     *)
(* effect closes over the gameState of the render that set it up and is    *)
(* torn down and set up again only when gameState.status or gameState.wave *)
(* differ from that render (dependency list, line 1138).                   *)
(***************************************************************************)
EXTENDS Integers, Sequences, FiniteSets, TLC

\* ---------------------------------------------------------------- constants
PLAYER_HEIGHT == 15
FLIGHT_SPEED == 15
REPULSOR_COOLDOWN_MS == 200
WAVE_DURATION_SEC == 45
MAX_BEAM_CHARGES == 5
BEAM_REGEN_MS == 1000
MaxDeltaMs == 100
UnibeamRadius == 800
UnibeamPoints == 50
RepulsorPoints == 10
RepulsorDamage == 100
EnemyHp == 100
CollisionDamage == 20
StartHealth == 100
SpawnDistance == 600
DespawnDistance == 200
hitRadius == 15
pWidth == 5
pHeight == 18
pDepth == 5
MaxEnemyCount == 15
ExplosionCount == 8
LightningCount == 8
ParticleLife == 800
ArcLife == 200
TextLife == 1000
BeamLife == 100           \* Update Beams: now - l.timestamp > 100
BeamHold == 500           \* triggerUnibeam: timestamp: Date.now() + 500
ShockwaveGrowth == 4      \* sw.life += delta * 4.0
ShockwaveLife == 2500     \* sw.life > 2.5
ShockwaveStart == 900     \* opacity 0.9 of the shockwave material
ShockwaveFade == 4        \* 0.9 - (sw.life * 0.4)
ShakeCap == 2000          \* addShake: Math.min(..., 2.0)
ShakeDecay == 5           \* Camera Shake: - (delta * 5)
RepulsorShake == 80       \* fireRepulsor: addShake(0.08)
UnibeamShake == 2000      \* triggerUnibeam: addShake(2.0)
CollisionShake == 1000    \* collision branch: addShake(1.0)
SmoothingPercent == 15    \* lerp(cursorPositionRef, targetCursorPositionRef, 0.15)
ParticleFade == 2
\* Lives are binary floating-point numbers: 0.8 - 4 * 0.2 and 1.0 - 10 * 0.1
\* come out above 0, while 0.2 - 2 * 0.1 is exactly 0.  A particle and a damage
\* text carry that residue as one unit on top of their life in milliseconds.
Rounding == 1

\* ------------------------------------------------------------------- bounds
\* Exploration budgets of a run: playing ticks, enemies spawned, enemies alive
\* at once, unibeam triggers, repulsor triggers, startGame calls, frames
\* animated in one stay in the menu or at game over, and the highest wave a
\* stalled frame may reach; whether the effect pools are followed, and the
\* pointer samples a unibeam is aimed with.  Five profiles are explored: a
\* fight down to game over, a long flight with few inputs, a short one with
\* many weapon triggers, a swarm that fills the spawn cap, and an enemy at the
\* bounds of the collision test.
CoreFlight == 7
CoreSpawns == 6
CoreLive == 2
CoreKeys == 1
CoreShots == 1
CoreGames == 2
CoreIdle == 2
CoreWave == 1

LongFlight == 14
LongSpawns == 2
LongLive == 1
LongKeys == 1
LongShots == 1
LongGames == 1
LongIdle == 1
LongWave == 2

ArsenalFlight == 2
ArsenalSpawns == 2
ArsenalLive == 2
ArsenalKeys == 6
ArsenalShots == 3
ArsenalGames == 1
ArsenalIdle == 1
ArsenalWave == 2

SwarmFlight == 5
SwarmSpawns == 5
SwarmLive == 5
SwarmKeys == 1
SwarmShots == 1
SwarmGames == 1
SwarmIdle == 1
SwarmWave == 1

ContactFlight == 2
ContactSpawns == 2
ContactLive == 2
ContactKeys == 1
ContactShots == 1
ContactGames == 2
ContactIdle == 11
ContactWave == 1
ContactFrames == 440

OriginalFlight == 3
OriginalSpawns == 2
OriginalLive == 2
OriginalKeys == 2
OriginalShots == 2
OriginalGames == 1
OriginalIdle == 1
OriginalWave == 1

DrainFlight == 2
DrainFrames == 12
DrainSpawns == 1
DrainLive == 1
DrainKeys == 1
DrainShots == 1
DrainGames == 2
DrainIdle == 1
DrainWave == 1

PassingFlight == 4
PassingSpawns == 2
PassingLive == 2
PassingKeys == 1
PassingShots == 1
PassingGames == 1
PassingIdle == 1
PassingWave == 1

ShakeFlight == 6
ShakeSpawns == 1
ShakeLive == 1
ShakeKeys == 1
ShakeShots == 1
ShakeGames == 1
ShakeIdle == 1
ShakeWave == 1

DegradedFlight == 2
DegradedSpawns == 1
DegradedLive == 1
DegradedKeys == 1
DegradedShots == 1
DegradedGames == 2
DegradedIdle == 1
DegradedWave == 1
DegradedMoves == 1

MaxTimers == 1

\* cursorPositionRef.current, the smoothed pointer position the weapons aim
\* with, in thousandths of the window: its start value and two samples near
\* opposite corners
AimCentre == [x |-> 500, y |-> 500]
Aims == {[x |-> 100, y |-> 100], AimCentre, [x |-> 900, y |-> 900]}

CoreLimits ==
  [flight |-> CoreFlight, spawns |-> CoreSpawns, live |-> CoreLive,
   keys |-> CoreKeys, shots |-> CoreShots, games |-> CoreGames,
   wave |-> CoreWave, idle |-> CoreIdle, fx |-> FALSE, smooth |-> TRUE, shake |-> FALSE, edge |-> FALSE, app |-> FALSE, drain |-> FALSE,
   aims |-> {AimCentre},
   moves |-> 0, hands |-> {"seen"}, pointers |-> {AimCentre}, stores |-> {"ok"}]

LongLimits ==
  [flight |-> LongFlight, spawns |-> LongSpawns, live |-> LongLive,
   keys |-> LongKeys, shots |-> LongShots, games |-> LongGames,
   wave |-> LongWave, idle |-> LongIdle, fx |-> FALSE, smooth |-> TRUE, shake |-> FALSE, edge |-> FALSE, app |-> FALSE, drain |-> FALSE,
   aims |-> {AimCentre},
   moves |-> 0, hands |-> {"seen"}, pointers |-> {AimCentre}, stores |-> {"ok"}]

ArsenalLimits ==
  [flight |-> ArsenalFlight, spawns |-> ArsenalSpawns, live |-> ArsenalLive,
   keys |-> ArsenalKeys, shots |-> ArsenalShots, games |-> ArsenalGames,
   wave |-> ArsenalWave, idle |-> ArsenalIdle, fx |-> FALSE, smooth |-> TRUE, shake |-> FALSE, edge |-> FALSE, app |-> FALSE, drain |-> FALSE,
   aims |-> {AimCentre},
   moves |-> 0, hands |-> {"seen"}, pointers |-> {AimCentre}, stores |-> {"ok"}]

SwarmLimits ==
  [flight |-> SwarmFlight, spawns |-> SwarmSpawns, live |-> SwarmLive,
   keys |-> SwarmKeys, shots |-> SwarmShots, games |-> SwarmGames,
   wave |-> SwarmWave, idle |-> SwarmIdle, fx |-> FALSE, smooth |-> TRUE, shake |-> FALSE, edge |-> FALSE, app |-> FALSE, drain |-> FALSE,
   aims |-> {AimCentre},
   moves |-> 0, hands |-> {"seen"}, pointers |-> {AimCentre}, stores |-> {"ok"}]

ContactLimits ==
  [flight |-> ContactFlight, spawns |-> ContactSpawns, live |-> ContactLive,
   keys |-> ContactKeys, shots |-> ContactShots, games |-> ContactGames,
   wave |-> ContactWave, idle |-> ContactIdle, fx |-> TRUE, smooth |-> FALSE, shake |-> FALSE, edge |-> FALSE, app |-> FALSE, drain |-> FALSE,
   aims |-> Aims,
   moves |-> 0, hands |-> {"seen"}, pointers |-> {AimCentre}, stores |-> {"ok"}]

ShakeLimits ==
  [flight |-> ShakeFlight, spawns |-> ShakeSpawns, live |-> ShakeLive,
   keys |-> ShakeKeys, shots |-> ShakeShots, games |-> ShakeGames,
   wave |-> ShakeWave, idle |-> ShakeIdle, fx |-> FALSE, smooth |-> TRUE, shake |-> TRUE, edge |-> FALSE, app |-> FALSE, drain |-> FALSE,
   aims |-> {AimCentre},
   moves |-> 0, hands |-> {"seen"}, pointers |-> {AimCentre}, stores |-> {"ok"}]

PassingLimits ==
  [flight |-> PassingFlight, spawns |-> PassingSpawns, live |-> PassingLive,
   keys |-> PassingKeys, shots |-> PassingShots, games |-> PassingGames,
   wave |-> PassingWave, idle |-> PassingIdle, fx |-> FALSE, smooth |-> TRUE, shake |-> FALSE, edge |-> TRUE, app |-> FALSE, drain |-> FALSE,
   aims |-> {AimCentre},
   moves |-> 0, hands |-> {"seen"}, pointers |-> {AimCentre}, stores |-> {"ok"}]

\* the budget of a run of the src/App.tsx variant of the charge logic
OriginalLimits ==
  [flight |-> OriginalFlight, spawns |-> OriginalSpawns, live |-> OriginalLive,
   keys |-> OriginalKeys, shots |-> OriginalShots, games |-> OriginalGames,
   wave |-> OriginalWave, idle |-> OriginalIdle, fx |-> FALSE, smooth |-> TRUE, shake |-> FALSE, edge |-> FALSE, app |-> TRUE, drain |-> FALSE,
   aims |-> {AimCentre},
   moves |-> 0, hands |-> {"seen"}, pointers |-> {AimCentre}, stores |-> {"ok"}]

\* the budget of a run that is followed, past its frame budgets, for as long
\* as an effect is left in a pool
DrainLimits ==
  [flight |-> DrainFlight, spawns |-> DrainSpawns, live |-> DrainLive,
   keys |-> DrainKeys, shots |-> DrainShots, games |-> DrainGames,
   wave |-> DrainWave, idle |-> DrainIdle, fx |-> TRUE, smooth |-> TRUE, shake |-> FALSE, edge |-> FALSE, app |-> FALSE, drain |-> TRUE,
   aims |-> {AimCentre},
   moves |-> 0, hands |-> {"seen"}, pointers |-> {AimCentre}, stores |-> {"ok"}]

\* what a recognizer poll can report: the video or the recognizer is not
\* ready, no hand is in the picture, a hand is
Hands == {"unavailable", "none", "seen"}

\* what submitScore can meet: no database handle or no user id, a write
\* that is rejected, a write that succeeds
Stores == {"absent", "failing", "ok"}

DegradedLimits ==
  [flight |-> DegradedFlight, spawns |-> DegradedSpawns, live |-> DegradedLive,
   keys |-> DegradedKeys, shots |-> DegradedShots, games |-> DegradedGames,
   wave |-> DegradedWave, idle |-> DegradedIdle, fx |-> FALSE, smooth |-> TRUE, shake |-> FALSE, edge |-> FALSE, app |-> FALSE, drain |-> FALSE,
   aims |-> {AimCentre},
   moves |-> DegradedMoves, hands |-> Hands,
   pointers |-> {AimCentre, [x |-> 900, y |-> 900]}, stores |-> Stores]

VARIABLES
  gameState,       \* useState<GameState>: status, health, score, wave, beamCharges
  closure,         \* the gameState the live simulation effect closed over
  enemies,         \* enemiesRef.current
  camera,          \* position of the live effect instance's camera
  shotAge,         \* Date.now() - lastShotTimeRef.current
  waveAge,         \* Date.now() - waveStartTimeRef.current
  waveDt,          \* the deltas of the playing ticks since waveStartTimeRef was set, summed
  timer,           \* useState(45): the remaining wave time the HUD shows
  beamRegenTimer,  \* beamRegenTimerRef.current
  effect,          \* the simulation effect: the number of its live instance,
                   \* the instances whose keydown, mousemove, mousedown and
                   \* resize listeners are registered, the instances with a
                   \* requested animation frame pending, and the instance that
                   \* requested the frame frameIdRef.current names
  target,          \* targetCursorPositionRef.current, the raw pointer sample
  scene,           \* the ids of the enemies whose mesh and hitbox are children
                   \* of sceneRef.current, the scene the renderer draws
  shake,           \* shakeIntensityRef.current, in thousandths; a run whose
                   \* budget has shake off leaves the camera shake out
  cursor,          \* cursorPositionRef.current, the smoothed pointer sample; a
                   \* run whose budget has smooth off draws the sample a
                   \* unibeam reads from limits.aims instead
  timers,          \* pending setTimeout(() => triggerUnibeam(), 0) callbacks
  nextId,          \* identity of the next enemy spawned
  op,              \* the handler that ran last
  emitted,         \* side effects (sounds, effect spawns, shake) of that handler
  pools,           \* particlesRef, electricalArcsRef, damageTextsRef,
                   \* shockwavesRef: the life (milliseconds) of every effect
                   \* of the pool; activeLinesRef: for every beam its kind, the
                   \* time since it was pushed and its timestamp; nothing in
                   \* the game reads the pools back, and a run whose budget
                   \* has fx off leaves them out
  probed,          \* the collision tests of that handler: for every enemy tested,
                   \* its id, ePos.x - pX, ePos.y, ePos.z - pZ and the outcome
  lowHpPlays,      \* playSound('low_hp') calls since the last startGame
  submits,         \* submitScore calls since the last startGame
  destroyed,       \* per enemy id: times it was removed by a kill, beam, collision or despawn
  awarded,         \* per enemy id: times points were awarded for it
  seen,            \* what the weapon calls of that handler found: the age of the
                   \* last shot (fireRepulsor) and prev.beamCharges (the
                   \* updater of triggerUnibeam), -1 when not called; and the
                   \* pointer sample the beam of an effective unibeam was
                   \* drawn along; what the recognizer poll of a frame
                   \* reported; the condition submitScore met and the
                   \* addDoc calls it made; the pointer sample the ray of
                   \* an effective repulsor shot was cast through and the one
                   \* the camera of a playing frame was turned towards
  used,            \* budget spent so far
  limits           \* budget of the run

vars == <<gameState, closure, enemies, camera, shotAge, waveAge, waveDt,
          timer, beamRegenTimer, effect, target, cursor, shake, scene, timers, nextId, op, emitted, pools, probed, lowHpPlays,
          submits,
          destroyed,
          awarded, seen, used, limits>>

\* ----------------------------------------------------------------- variants
\* Deviations from the code, each standing in for the definition named after
\* "for"; the properties below must tell every one of them from the code.

\* for Splice: the element stays in the array
SpliceKeeps(s, index) == s

\* for CollisionUpdate: health is not floored at 0
CollisionUpdateUnfloored(prev) ==
  LET newHp == prev.health - CollisionDamage
  IN IF newHp <= 0
       THEN [prev EXCEPT !.health = newHp, !.status = "gameover"]
       ELSE [prev EXCEPT !.health = newHp]

\* variant of the collision updater's sounds: low_hp on every collision that
\* leaves health at 20 or below
CollisionEffectsRepeating(prev) ==
  LET newHp == prev.health - CollisionDamage
  IN (IF newHp <= 20 THEN {"low_hp"} ELSE {})
       \cup (IF newHp <= 0 THEN {"submit"} ELSE {})

\* for CollisionUpdate: health runs out but the game goes on
CollisionUpdateLingering(prev) ==
  LET newHp == prev.health - CollisionDamage
  IN IF newHp <= 0
       THEN [prev EXCEPT !.health = 0]
       ELSE [prev EXCEPT !.health = newHp]

\* for CollisionUpdate: the game ends one collision early
CollisionUpdateEarly(prev) ==
  LET newHp == prev.health - CollisionDamage
  IN IF newHp <= CollisionDamage
       THEN [prev EXCEPT !.health = newHp, !.status = "gameover"]
       ELSE [prev EXCEPT !.health = newHp]

\* variant of destroyEnemy's updater: the points are taken off the score
ScoreUpdateDeducting(prev, points) == [prev EXCEPT !.score = prev.score - points]

\* for ScoreUpdate: a kill also restores a charge
ScoreUpdateCharging(prev, points) ==
  [prev EXCEPT !.score = prev.score + points,
               !.beamCharges = IF prev.beamCharges < MAX_BEAM_CHARGES
                                 THEN prev.beamCharges + 1 ELSE prev.beamCharges]

\* for UnibeamReady: no charge is needed
UnibeamAlwaysReady(prev) == prev.beamCharges >= 0

\* for CooldownActive: half the cooldown
CooldownHalved(age) == 2 * age < REPULSOR_COOLDOWN_MS

Max(a, b) == IF a > b THEN a ELSE b
Min(a, b) == IF a < b THEN a ELSE b
Abs(a) == IF a < 0 THEN 0 - a ELSE a

\* Array.prototype.splice(index, 1)
Splice(s, index) == SubSeq(s, 1, index - 1) \o SubSeq(s, index + 1, Len(s))

\* ------------------------------------------------------------- game state
InitialGameState ==
  [status |-> "menu", health |-> StartHealth, score |-> 0, wave |-> 1,
   beamCharges |-> 5]

StartedGameState ==
  [status |-> "playing", health |-> StartHealth, score |-> 0, wave |-> 1,
   beamCharges |-> 5]

\* camera.position.set(0, PLAYER_HEIGHT, 0)
NewCamera == [x |-> 0, y |-> PLAYER_HEIGHT, z |-> 0]

\* --------------------------------------------------------------- geometry
\* Vector3.distanceTo, squared
DistSq(p, q) ==
  (p.x - q.x) * (p.x - q.x) + (p.y - q.y) * (p.y - q.y) + (p.z - q.z) * (p.z - q.z)

\* triggerUnibeam: dist < 80, dist the enemy's distance to the camera
InBlast(pos, cam) == DistSq(pos, cam) < UnibeamRadius * UnibeamRadius

\* variant of the collision test: boundaries included
CollidesInclusive(pos, cam) ==
  /\ Abs(pos.x - cam.x) <= pWidth + hitRadius
  /\ Abs(pos.z - cam.z) <= pDepth + hitRadius
  /\ pos.y <= pHeight + hitRadius
  /\ pos.y >= 0 - hitRadius

\* animate: collisionX && collisionZ && collisionY
Collides(pos, cam) ==
  /\ Abs(pos.x - cam.x) < pWidth + hitRadius
  /\ Abs(pos.z - cam.z) < pDepth + hitRadius
  /\ pos.y < pHeight + hitRadius
  /\ pos.y > 0 - hitRadius

\* variant of the despawn test: exactly DespawnDistance behind counts too
PassedInclusive(pos, cam) == pos.z >= cam.z + DespawnDistance

\* animate, despawn test: enemy.mesh.position.z > camera.position.z + 20
Passed(pos, cam) == pos.z > cam.z + DespawnDistance

\* The raycaster looks from the camera into the scene (-z): only a hitbox
\* in front of the camera can be the nearest intersection.
Hittable(pos, cam) == pos.z < cam.z


\* ------------------------------------------------- setGameState updaters
\* destroyEnemy: prev => ({ ...prev, score: prev.score + points })
ScoreUpdate(prev, points) == [prev EXCEPT !.score = prev.score + points]

\* animate, unibeam regeneration: min(prev.beamCharges + 1, MAX_BEAM_CHARGES)
RegenUpdate(prev) ==
  [prev EXCEPT !.beamCharges = Min(prev.beamCharges + 1, MAX_BEAM_CHARGES)]

\* animate, game timer: wave: prev.wave + 1
WaveUpdate(prev) == [prev EXCEPT !.wave = prev.wave + 1]

\* animate, collision: newHp = prev.health - 20; game over when newHp <= 0
CollisionUpdate(prev) ==
  LET newHp == prev.health - CollisionDamage
  IN IF newHp <= 0
       THEN [prev EXCEPT !.health = 0, !.status = "gameover"]
       ELSE [prev EXCEPT !.health = newHp]

\* animate, collision: the updater's calls of playSound('low_hp') and submitScore
CollisionEffects(prev) ==
  LET newHp == prev.health - CollisionDamage
  IN (IF newHp <= 20 /\ newHp > 0 THEN {"low_hp"} ELSE {})
       \cup (IF newHp <= 0 THEN {"submit"} ELSE {})

\* src/App.tsx, useState and startGame: beamCharges: 0
AppInitialGameState == [InitialGameState EXCEPT !.beamCharges = 0]
AppStartedGameState == [StartedGameState EXCEPT !.beamCharges = 0]

\* src/App.tsx, triggerUnibeam: if (prev.beamCharges < MAX_BEAM_CHARGES) return prev
AppUnibeamReady(prev) == prev.beamCharges >= MAX_BEAM_CHARGES

\* src/App.tsx, triggerUnibeam: { ...prev, beamCharges: 0, score: ... * 50 }
AppUnibeamUpdate(prev, n) ==
  [prev EXCEPT !.beamCharges = 0, !.score = prev.score + n * UnibeamPoints]

\* src/App.tsx, destroyEnemy: score + points, beamCharges + 1 up to the maximum
AppScoreUpdate(prev, points) ==
  [prev EXCEPT !.score = prev.score + points,
               !.beamCharges = Min(prev.beamCharges + 1, MAX_BEAM_CHARGES)]

\* triggerUnibeam: if (prev.beamCharges <= 0) return prev
UnibeamReady(prev) == prev.beamCharges > 0

\* triggerUnibeam: the state the updater returns, n enemies removed
UnibeamUpdate(prev, n) ==
  [prev EXCEPT !.beamCharges = prev.beamCharges - 1,
               !.score = prev.score + n * UnibeamPoints]

\* triggerUnibeam: the indices pushed to enemiesToRemove
BlastIndices(en, cam) == {i \in DOMAIN en : InBlast(en[i].pos, cam)}

\* triggerUnibeam: enemiesToRemove.sort((a, b) => b - a).forEach(splice)
RECURSIVE SpliceAll(_, _)
SpliceAll(en, idxs) ==
  IF idxs = {} THEN en
  ELSE LET m == CHOOSE i \in idxs : \A j \in idxs : j <= i
       IN SpliceAll(Splice(en, m), idxs \ {m})

\* fireRepulsor: now - lastShotTimeRef.current < REPULSOR_COOLDOWN_MS
CooldownActive(age) == age < REPULSOR_COOLDOWN_MS

\* ------------------------------------------------------------ the handlers
\* variant of the pool update: an effect is kept until its life is below 0
UpdatePoolLate(pool, dec) ==
  SelectSeq([i \in DOMAIN pool |-> pool[i] - dec], LAMBDA life : life >= 0)

\* animate, update loops: life -= dec; if (life <= 0) splice(i, 1)
UpdatePool(pool, dec) ==
  SelectSeq([i \in DOMAIN pool |-> pool[i] - dec], LAMBDA life : life > 0)

\* animate, Update Beams: a beam is removed when now - l.timestamp > 100;
\* age is now minus the time the beam was pushed, stamp its timestamp minus
\* that time
UpdateLines(lines, step) ==
  SelectSeq([i \in DOMAIN lines |-> [lines[i] EXCEPT !.age = @ + step]],
            LAMBDA l : ~(l.age - l.stamp > BeamLife))

\* animate, Update Shockwaves: sw.life += delta * 4.0; if (sw.life > 2.5) splice(i, 1)
UpdateShockwaves(pool, delta) ==
  SelectSeq([i \in DOMAIN pool |-> pool[i] + delta * ShockwaveGrowth],
            LAMBDA life : ~(life > ShockwaveLife))

\* animate, Update Shockwaves: Math.max(0, 0.9 - (sw.life * 0.4)), in
\* thousandths; a shockwave pushed since has the 0.9 of its material
ShockwaveOpacity(life) == Max(0, ShockwaveStart - (life * ShockwaveFade) \div 10)

\* animate: the update loops of the pools for a frame of delta that comes
\* step milliseconds of Date.now() after the previous one
UpdatePools(fx, delta, step) ==
  [particles |-> UpdatePool(fx.particles, delta * ParticleFade),
   arcs |-> UpdatePool(fx.arcs, delta),
   texts |-> UpdatePool(fx.texts, delta),
   shockwaves |-> UpdateShockwaves(fx.shockwaves, delta),
   lines |-> UpdateLines(fx.lines, step)]

\* variant of the frame of a status other than playing: the status gate comes
\* before the update loops of the pools
IdlePoolsGated(fx) == fx

\* animate in a status other than playing: the update loops of the pools run,
\* the status gate comes after them
IdlePools(fx) == UpdatePools(fx, MaxDeltaMs, MaxDeltaMs)

\* n effects of the given life pushed to a pool
Pushed(pool, n, life) == pool \o [i \in 1 .. n |-> life]

\* variant of addShake: the intensity is not capped
addShakeUncapped(B, intensity) ==
  [B EXCEPT !.ev = @ \cup {"shake"},
            !.shake = IF limits.shake THEN @ + intensity ELSE @]

\* addShake(intensity)
addShake(B, intensity) ==
  [B EXCEPT !.ev = @ \cup {"shake"},
            !.shake = IF limits.shake THEN Min(@ + intensity, ShakeCap) ELSE @]

\* animate, Camera Shake: (Math.random() - 0.5) * shakeIntensityRef.current,
\* in tenths of a unit: the least, the middle and the greatest offset
Jitters(intensity) ==
  IF intensity > 0 THEN {0 - intensity \div 200, 0, (intensity - 1) \div 200} ELSE {0}

\* animate, Camera Shake, the camera: both draws taken equal to j while the
\* intensity is above 0, else the camera is put back on its rail
Shaken(cam, intensity, j) ==
  IF intensity > 0 THEN [cam EXCEPT !.x = @ + j, !.y = PLAYER_HEIGHT + j]
  ELSE [cam EXCEPT !.x = 0, !.y = PLAYER_HEIGHT]

\* animate, Camera Shake, the intensity after a frame of delta
Decayed(intensity, delta) ==
  IF intensity > 0 THEN Max(0, intensity - delta * ShakeDecay) ELSE intensity

\* variant of the smoothing: the smoothed sample jumps to the raw one
LerpSnapping(c, t) == t

\* animate, INPUT SMOOTHING: THREE.MathUtils.lerp(cursor, target, 0.15) on
\* both coordinates, to the thousandth
Lerp(c, t) ==
  [x |-> c.x + (SmoothingPercent * (t.x - c.x)) \div 100,
   y |-> c.y + (SmoothingPercent * (t.y - c.y)) \div 100]

\* What a handler reads and writes while it runs: the state, the enemy list,
\* the queue q of updaters it has passed to setGameState, the age of
\* the last shot, and the record of what it emitted and found.
Bundle ==
  [gs |-> gameState, en |-> enemies, q |-> <<>>, shot |-> shotAge,
   ev |-> {}, sub |-> submits, des |-> destroyed, aw |-> awarded,
   call |-> 0 - 1, charge |-> 0 - 1, probe |-> {}, fx |-> pools,
   low |-> lowHpPlays, aim |-> AimCentre, beam |-> <<>>,
   target |-> target, hand |-> "unpolled", store |-> "ok", met |-> "uncalled",
   wrote |-> 0, cursor |-> cursor, ray |-> <<>>, look |-> <<>>, shake |-> shake,
   att |-> scene, here |-> TRUE]

Updater(kind, points, cam) == [kind |-> kind, points |-> points, cam |-> cam]

\* variant of setGameState: the update replaces the ones still queued
setGameStateOverwriting(B, u) == [B EXCEPT !.q = <<u>>]

setGameState(B, u) == [B EXCEPT !.q = Append(@, u)]

\* one more removal (and award) recorded for every enemy at the indices idxs
Recorded(log, en, idxs) ==
  [id \in DOMAIN log |->
     log[id] + Cardinality({i \in idxs : en[i].id = id})]

\* scene.remove(enemy.mesh); scene.remove(enemy.hitbox) for the enemies at
\* idxs: scene is the scene of the instance whose handler runs, and removing
\* from a scene that is no longer the rendered one leaves the rendered one alone
Removed(B, idxs) ==
  IF B.here THEN B.att \ {B.en[i].id : i \in idxs} ELSE B.att

\* destroyEnemy(index, points)
destroyEnemy(B, index, points) ==
  setGameState(
    [B EXCEPT !.ev = @ \cup {"explosion"},
              !.fx.particles = Pushed(@, ExplosionCount, ParticleLife + Rounding),
              !.en = Splice(@, index),
              !.att = Removed(B, {index}),
              !.des = Recorded(@, B.en, {index}),
              !.aw = IF points > 0 THEN Recorded(@, B.en, {index}) ELSE @],
    Updater("score", points, NewCamera))

\* variant of fireRepulsor: the shot goes through, it also destroys every
\* enemy behind the one it hits
fireRepulsorPiercing(B, hit) ==
  IF CooldownActive(B.shot) THEN [B EXCEPT !.call = B.shot]
  ELSE LET B1 == [B EXCEPT !.call = B.shot, !.shot = 0,
                           !.ev = @ \cup {"shoot", "shake", "muzzle", "line"}]
       IN IF hit = 0 THEN B1
          ELSE LET idxs == {i \in DOMAIN B.en : B.en[i].pos.z <= B.en[hit].pos.z}
               IN setGameState(
                    [B1 EXCEPT !.ev = @ \cup {"hitMarker", "damageText", "hit", "explosion"},
                               !.en = SpliceAll(@, idxs),
                               !.des = Recorded(@, B.en, idxs),
                               !.aw = Recorded(@, B.en, idxs)],
                    Updater("score", RepulsorPoints * Cardinality(idxs), NewCamera))

\* fireRepulsor(), hit the index of the nearest hitbox on the aim ray (0: none)
fireRepulsor(B, hit) ==
  IF CooldownActive(B.shot) THEN [B EXCEPT !.call = B.shot]
  ELSE LET B1 == addShake([B EXCEPT !.call = B.shot, !.shot = 0,
                                    !.ray = <<B.cursor>>,
                                    !.ev = @ \cup {"shoot", "muzzle", "line"},
                                    !.fx.lines = Pushed(@, 2,
                                                        [kind |-> "repulsor", age |-> 0, stamp |-> 0])],
                           RepulsorShake)
       IN IF hit = 0 THEN B1
          ELSE LET hp == B1.en[hit].hp - RepulsorDamage
                   B2 == [B1 EXCEPT !.en[hit].hp = hp,
                                    !.ev = @ \cup {"hitMarker", "damageText", "hit"},
                                    !.fx.texts = Pushed(@, 1, TextLife + Rounding)]
               IN IF hp <= 0 THEN destroyEnemy(B2, hit, RepulsorPoints)
                  ELSE [B2 EXCEPT !.ev = @ \cup {"flash"}]

\* triggerUnibeam(): the whole body is the updater passed to setGameState;
\* cam is the camera of the effect instance the function belongs to
triggerUnibeam(B, cam, aim) ==
  setGameState([B EXCEPT !.aim = IF limits.smooth THEN B.cursor ELSE aim],
               Updater("unibeam", 0, cam))

\* variant of the updater of triggerUnibeam: only the enemies on the side of
\* the player the pointer is on are in the blast
RunUnibeamAimed(B, cam) ==
  IF ~UnibeamReady(B.gs) THEN [B EXCEPT !.charge = B.gs.beamCharges]
  ELSE LET idxs == {i \in BlastIndices(B.en, cam) :
                     (B.aim.x - AimCentre.x) * (B.en[i].pos.x - cam.x) >= 0}
       IN [B EXCEPT
             !.charge = B.gs.beamCharges,
             !.beam = <<B.aim>>,
             !.gs = UnibeamUpdate(@, Cardinality(idxs)),
             !.en = SpliceAll(@, idxs),
             !.ev = @ \cup {"beam", "shake", "line", "arc", "shockwave"}
                      \cup (IF idxs = {} THEN {} ELSE {"explosion", "damageText"}),
             !.fx = [particles |-> Pushed(@.particles,
                                          ExplosionCount * Cardinality(idxs),
                                          ParticleLife + Rounding),
                     arcs |-> Pushed(@.arcs, LightningCount, ArcLife),
                     texts |-> Pushed(@.texts, Cardinality(idxs), TextLife + Rounding),
                     shockwaves |-> Pushed(@.shockwaves, 1, 0),
                     lines |-> Pushed(@.lines, 1,
                                      [kind |-> "unibeam", age |-> 0, stamp |-> BeamHold])],
             !.des = Recorded(@, B.en, idxs),
             !.aw = Recorded(@, B.en, idxs)]

\* the updater of triggerUnibeam, run on the state and the enemy list it finds
RunUnibeam(B, cam) ==
  IF ~(IF limits.app THEN AppUnibeamReady(B.gs) ELSE UnibeamReady(B.gs)) THEN [B EXCEPT !.charge = B.gs.beamCharges]
  ELSE LET idxs == BlastIndices(B.en, cam)
       IN addShake([B EXCEPT
             !.charge = B.gs.beamCharges,
             !.beam = <<B.aim>>,
             !.gs = IF limits.app THEN AppUnibeamUpdate(@, Cardinality(idxs))
                    ELSE UnibeamUpdate(@, Cardinality(idxs)),
             !.en = SpliceAll(@, idxs),
             !.att = Removed(B, idxs),
             !.ev = @ \cup {"beam", "line", "arc", "shockwave"}
                      \cup (IF idxs = {} THEN {} ELSE {"explosion", "damageText"}),
             !.fx = [particles |-> Pushed(@.particles,
                                          ExplosionCount * Cardinality(idxs),
                                          ParticleLife + Rounding),
                     arcs |-> Pushed(@.arcs, LightningCount, ArcLife),
                     texts |-> Pushed(@.texts, Cardinality(idxs), TextLife + Rounding),
                     shockwaves |-> Pushed(@.shockwaves, 1, 0),
                     lines |-> Pushed(@.lines, 1,
                                      [kind |-> "unibeam", age |-> 0, stamp |-> BeamHold])],
             !.des = Recorded(@, B.en, idxs),
             !.aw = Recorded(@, B.en, idxs)], UnibeamShake)

\* variant of the poll: without a hand the pointer goes back to the centre
PollRecentring(B, hand, pointer) ==
  [B EXCEPT !.hand = hand,
            !.target = IF hand = "seen" THEN pointer ELSE AimCentre]

\* animate, MediaPipe Polling, up to setHandInput: nothing is done while the
\* video or the recognizer is not ready; targetCursorPositionRef is assigned
\* only when the result has landmarks
Poll(B, hand, pointer) ==
  [B EXCEPT !.hand = hand,
            !.target = IF hand = "seen" THEN pointer ELSE @]

\* submitScore(finalScore): returns at once without a database handle or a
\* user id, else one addDoc whose rejection is caught and logged
submitScore(B) ==
  [B EXCEPT !.sub = @ + 1,
            !.met = B.store,
            !.wrote = @ + (IF B.store = "absent" THEN 0 ELSE 1)]

\* the updater of the collision branch, with its side effects
RunCollision(B) ==
  LET B1 == [B EXCEPT !.gs = CollisionUpdate(@),
                      !.ev = @ \cup CollisionEffects(B.gs),
                      !.low = @ + (IF "low_hp" \in CollisionEffects(B.gs) THEN 1 ELSE 0)]
  IN IF "submit" \in CollisionEffects(B.gs) THEN submitScore(B1) ELSE B1

ApplyUpdate(B, u) ==
  CASE u.kind = "score" -> [B EXCEPT !.gs = IF limits.app THEN AppScoreUpdate(@, u.points)
                                            ELSE ScoreUpdate(@, u.points)]
    [] u.kind = "regen" -> [B EXCEPT !.gs = RegenUpdate(@)]
    [] u.kind = "wave" -> [B EXCEPT !.gs = WaveUpdate(@)]
    [] u.kind = "collision" -> RunCollision(B)
    [] u.kind = "unibeam" -> RunUnibeam(B, u.cam)
    [] u.kind = "start" -> [B EXCEPT !.gs = IF limits.app THEN AppStartedGameState
                                            ELSE StartedGameState]

\* the render after a handler: the queued updaters run in call order
RECURSIVE Flush(_)
Flush(B) ==
  IF B.q = <<>> THEN B
  ELSE Flush(ApplyUpdate([B EXCEPT !.q = Tail(@)], Head(B.q)))


\* -------------------------------------------------------- enemy movement
\* The steering arithmetic (normalised lerp of float vectors, a random speed
\* offset) is reduced to where it leaves the enemy with respect to the three
\* tests of the loop.  In a frame an enemy either stays where it is (its own
\* displacement, under 0.8 units a frame, is neglected while the player flies
\* towards it) or arrives at one of the named offsets from the camera, never
\* farther ahead of the player than it was.  How many frames an enemy takes
\* from one offset to the next is left open.
Moves == {"stay", "contact", "behind"}

\* with the budget's edge switch on an enemy can also come to rest exactly
\* DespawnDistance behind the camera
MovesOf(L) == IF L.edge THEN Moves \cup {"edge"} ELSE Moves

MoveOffset(m) ==
  CASE m = "contact" -> [x |-> 0, y |-> 10 - PLAYER_HEIGHT, z |-> 0]
    [] m = "edge" -> [x |-> 0, y |-> 10 - PLAYER_HEIGHT, z |-> DespawnDistance]
    [] m = "behind" -> [x |-> 0, y |-> 10 - PLAYER_HEIGHT, z |-> DespawnDistance + 10]

\* enemy.mesh.position after enemy.mesh.position.add(velocity * delta)
MovedPos(pos, m, cam) ==
  IF m = "stay" THEN pos
  ELSE [x |-> cam.x + MoveOffset(m).x, y |-> cam.y + MoveOffset(m).y,
        z |-> cam.z + MoveOffset(m).z]

MoveAllowed(pos, m, cam) == m = "stay" \/ MoveOffset(m).z >= pos.z - cam.z

\* animate, enemy spawning: the enemy pushed to enemiesRef.current
SpawnedEnemy(id, cam) ==
  [id |-> id, hp |-> EnemyHp,
   pos |-> [x |-> cam.x, y |-> cam.y, z |-> cam.z - SpawnDistance]]

\* variant of targetEnemyCount: one more enemy allowed
TargetEnemyCountLoose(wave) == Min(MaxEnemyCount, 3 + wave * 2)

\* animate, enemy spawning: targetEnemyCount
TargetEnemyCount(wave) == Min(MaxEnemyCount, 2 + wave * 2)

\* variant of the collision branch: points awarded for the enemy
CollisionStepScoring(B, i) ==
  setGameState(
    destroyEnemy([B EXCEPT !.ev = @ \cup {"explosion", "shake", "collision"},
                           !.fx.particles = Pushed(@, ExplosionCount, ParticleLife + Rounding)], i,
                 RepulsorPoints),
    Updater("collision", 0, NewCamera))

\* animate, collision branch for the enemy at index i
CollisionStep(B, i) ==
  setGameState(
    destroyEnemy(addShake([B EXCEPT !.ev = @ \cup {"explosion", "collision"},
                                    !.fx.particles = Pushed(@, ExplosionCount, ParticleLife + Rounding)],
                          CollisionShake), i, 0),
    Updater("collision", 0, NewCamera))

\* animate, despawn branch for the enemy at index i
DespawnStep(B, i) ==
  [B EXCEPT !.en = Splice(@, i), !.att = Removed(B, {i}),
            !.des = Recorded(@, B.en, {i})]

\* animate, enemy logic: for (i = length - 1; i >= 0; i--)
RECURSIVE EnemyLoop(_, _, _, _)
EnemyLoop(B, i, moves, cam) ==
  IF i = 0 THEN B
  ELSE LET p == MovedPos(B.en[i].pos, moves[i], cam)
           M == [B EXCEPT !.en[i].pos = p,
                          !.probe = @ \cup {[id |-> B.en[i].id,
                                             x |-> p.x - cam.x, y |-> p.y,
                                             z |-> p.z - cam.z,
                                             hit |-> Collides(p, cam)]}]
       IN IF Collides(p, cam)
            THEN EnemyLoop(CollisionStep(M, i), i - 1, moves, cam)
            ELSE IF Passed(p, cam)
              THEN EnemyLoop(DespawnStep(M, i), i - 1, moves, cam)
              ELSE EnemyLoop(M, i - 1, moves, cam)

\* fresh is the index of the enemy spawned in this tick (0: none), which is
\* still where it was spawned
MoveChoices(en, cam, fresh) ==
  {mv \in [DOMAIN en -> MovesOf(limits)] :
     \A i \in DOMAIN en :
        IF i = fresh THEN mv[i] = "stay"
        ELSE MoveAllowed(en[i].pos, mv[i], cam)}

\* ------------------------------------------------- render and effect setup
\* The effect is set up again when status or wave changed (dependency list).
EffectReruns(gs) == gs.status # closure.status \/ gs.wave # closure.wave

\* A pending timer of a torn-down instance keeps that instance's camera,
\* which stays where the teardown left it.
Orphaned(tm, cam) ==
  [i \in DOMAIN tm |->
     IF tm[i].stale THEN tm[i] ELSE [stale |-> TRUE, camera |-> cam]]

\* variant of the teardown: the listeners stay and the frame is not cancelled
TornDownLeaking(e) == e

\* the cleanup the effect returns: removeEventListener for the four
\* listeners, cancelAnimationFrame(frameIdRef.current)
TornDown(e) ==
  [e EXCEPT !.listeners = @ \ {e.instance},
            !.frames = @ \ {e.frameId}]

\* variant of the effect body: the first frame is requested twice
SetUpDoubled(e) ==
  [instance |-> e.instance + 1,
   listeners |-> e.listeners \cup {e.instance + 1},
   frames |-> e.frames \cup {e.instance + 1, 0 - (e.instance + 1)},
   frameId |-> e.instance + 1]

\* the effect body: a new instance adds its listeners and requests its
\* first frame
SetUp(e) ==
  [instance |-> e.instance + 1,
   listeners |-> e.listeners \cup {e.instance + 1},
   frames |-> e.frames \cup {e.instance + 1},
   frameId |-> e.instance + 1]

\* the first statement of animate: the frame that fired is gone, the next one
\* is requested and frameIdRef.current names it
Rearmed(e) ==
  [e EXCEPT !.frames = (@ \ {e.instance}) \cup {e.instance},
            !.frameId = e.instance]

\* End of a handler: React renders (the updater queue runs), and the
\* simulation effect is torn down and set up again if its dependencies changed.
Commit(B, cam, wa, wd, tmr, rt, tm, nid, u, name) ==
  \E F \in {Flush(B)} :
    LET rerun == EffectReruns(F.gs)
    IN /\ gameState' = F.gs
       /\ enemies' = F.en
       /\ closure' = IF rerun THEN F.gs ELSE closure
       /\ camera' = IF rerun THEN NewCamera ELSE cam
       /\ shotAge' = F.shot
       /\ waveAge' = wa
       /\ waveDt' = wd
       /\ timer' = tmr
       /\ beamRegenTimer' = rt
       /\ effect' = LET e == IF name = "tick" THEN Rearmed(effect) ELSE effect
                     IN IF rerun THEN SetUp(TornDown(e)) ELSE e
       /\ timers' = IF rerun THEN Orphaned(tm, cam) ELSE tm
       /\ nextId' = nid
       /\ op' = name
       /\ emitted' = F.ev
       /\ pools' = IF limits.fx THEN F.fx ELSE pools
       /\ probed' = F.probe
       /\ lowHpPlays' = F.low
       /\ submits' = F.sub
       /\ destroyed' = F.des
       /\ awarded' = F.aw
       /\ seen' = [repulsor |-> F.call, unibeam |-> F.charge, beam |-> F.beam,
                   hand |-> F.hand, store |-> F.met, writes |-> F.wrote,
                   ray |-> F.ray, look |-> F.look]
       /\ target' = F.target
       /\ cursor' = F.cursor
       /\ shake' = F.shake
       /\ scene' = IF rerun THEN {} ELSE F.att
       /\ used' = u
       /\ UNCHANGED limits

\* Math.max(0, WAVE_DURATION_SEC - elapsedWave), in milliseconds
Remaining(elapsedWave) == Max(0, WAVE_DURATION_SEC * 1000 - elapsedWave)

\* the age of a timestamp after step more milliseconds, saturated at cap
Aged(age, step, cap) == Min(age + step, cap)

\* ------------------------------------------------------------------ actions
InitWith(L) ==
  /\ gameState = (IF L.app THEN AppInitialGameState ELSE InitialGameState)
  /\ closure = gameState
  /\ enemies = <<>>
  /\ camera = NewCamera
  /\ shotAge = REPULSOR_COOLDOWN_MS
  /\ waveAge = WAVE_DURATION_SEC * 1000
  /\ waveDt = 0
  /\ timer = WAVE_DURATION_SEC * 1000
  /\ beamRegenTimer = 0
  /\ effect = SetUp([instance |-> 0, listeners |-> {}, frames |-> {}, frameId |-> 0])
  /\ timers = <<>>
  /\ nextId = 1
  /\ op = "mount"
  /\ emitted = {}
  /\ pools = [particles |-> <<>>, arcs |-> <<>>, texts |-> <<>>,
              shockwaves |-> <<>>, lines |-> <<>>]
  /\ probed = {}
  /\ lowHpPlays = 0
  /\ submits = 0
  /\ destroyed = <<>>
  /\ awarded = <<>>
  /\ seen = [repulsor |-> 0 - 1, unibeam |-> 0 - 1, beam |-> <<>>,
             hand |-> "unpolled", store |-> "uncalled", writes |-> 0,
             ray |-> <<>>, look |-> <<>>]
  /\ target = AimCentre
  /\ cursor = AimCentre
  /\ shake = 0
  /\ scene = {}
  /\ used = [flight |-> 0, keys |-> 0, shots |-> 0, games |-> 0, idle |-> 0, moves |-> 0]
  /\ limits = L

\* variant of startGame: enemiesRef.current is left as it is
StartGameKeepingEnemies ==
  /\ gameState.status # "playing"
  /\ used.games < limits.games
  /\ Commit(setGameState([Bundle EXCEPT !.sub = 0, !.low = 0,
                                        !.fx.particles = <<>>,
                                        !.fx.texts = <<>>],
                         Updater("start", 0, NewCamera)),
            NewCamera, 0, 0, timer, 0, timers, nextId,
            [used EXCEPT !.games = @ + 1, !.idle = 0], "startGame")

\* startGame (the HUD shows its button only while status is not playing)
StartGame ==
  /\ gameState.status # "playing"
  /\ used.games < limits.games
  /\ Commit(setGameState([Bundle EXCEPT !.en = <<>>, !.sub = 0, !.low = 0,
                                        !.att = Removed(Bundle, DOMAIN enemies),
                                        !.fx.particles = <<>>,
                                        !.fx.texts = <<>>],
                         Updater("start", 0, NewCamera)),
            NewCamera, 0, 0, timer, 0, timers, nextId,
            [used EXCEPT !.games = @ + 1, !.idle = 0], "startGame")

\* handleMouseDown: fireRepulsor()
MouseDown ==
  /\ effect.instance \in effect.listeners
  /\ used.shots < limits.shots
  /\ \E hit \in 0 .. Len(enemies) :
       /\ hit # 0 => Hittable(enemies[hit].pos, camera)
       /\ Commit(fireRepulsor(Bundle, hit), camera, waveAge, waveDt, timer,
                 beamRegenTimer, timers, nextId, [used EXCEPT !.shots = @ + 1], "mouseDown")

\* handleMouseMove: targetCursorPositionRef.current = { x, y }
MouseMove ==
  /\ effect.instance \in effect.listeners
  /\ used.moves < limits.moves
  /\ \E pointer \in limits.pointers :
       Commit([Bundle EXCEPT !.target = pointer], camera, waveAge, waveDt, timer,
              beamRegenTimer, timers, nextId, [used EXCEPT !.moves = @ + 1],
              "mouseMove")

\* handleKeyDown, Space: setTimeout(() => triggerUnibeam(), 0)
KeyDownSpace ==
  /\ effect.instance \in effect.listeners
  /\ used.keys < limits.keys
  /\ Len(timers) < MaxTimers
  /\ Commit(Bundle, camera, waveAge, waveDt, timer, beamRegenTimer,
            Append(timers, [stale |-> FALSE, camera |-> NewCamera]),
            nextId, [used EXCEPT !.keys = @ + 1], "keyDown")

\* the timeout of handleKeyDown fires: triggerUnibeam() of the instance that set it
TimerFires ==
  /\ timers # <<>>
  /\ LET tm == Head(timers)
         cam == IF tm.stale THEN tm.camera ELSE camera
     IN \E aim \in limits.aims :
          Commit(triggerUnibeam([Bundle EXCEPT !.here = ~tm.stale], cam, aim),
                 camera, waveAge, waveDt,
                 timer, beamRegenTimer, Tail(timers), nextId, used, "timer")

Gestures == {"None", "Closed_Fist", "Open_Palm"}

\* how far such a run is followed: the flight of DrainFrames frames past the
\* frame budget
DrainDepth ==
  (ContactFrames + DrainFlight + DrainFrames) * ((FLIGHT_SPEED * MaxDeltaMs) \div 100)

\* no effect is left in any pool
NoEffect ==
  pools = [particles |-> <<>>, arcs |-> <<>>, texts |-> <<>>,
           shockwaves |-> <<>>, lines |-> <<>>]

\* an effect is left in a pool of a run that follows its effects to their end
Draining == limits.drain /\ ~NoEffect

\* animate while the closure's status is not playing: it returns at the status gate
TickIdle ==
  /\ effect.instance \in effect.frames
  /\ closure.status # "playing"
  /\ used.idle < limits.idle \/ Draining
  /\ \E hand \in limits.hands, pointer \in limits.pointers, j \in Jitters(shake) :
       /\ hand # "seen" => pointer = AimCentre
       /\ Commit(Poll([Bundle EXCEPT !.cursor = Lerp(@, target),
                                     !.shake = Decayed(@, MaxDeltaMs),
                                     !.shot = Aged(@, MaxDeltaMs, REPULSOR_COOLDOWN_MS),
                                     !.fx = IdlePools(@)],
                      hand, pointer),
                 Shaken(camera, shake, j),
                 Aged(waveAge, MaxDeltaMs, WAVE_DURATION_SEC * 1000),
                 waveDt, timer, beamRegenTimer, timers, nextId,
                 [used EXCEPT !.idle = Min(@ + 1, limits.idle)], "tick")

\* animate while the closure's status is playing; step is the time since the
\* previous frame (a stalled tab resumes after a whole wave duration), and
\* delta = min((time - lastTime) / 1000, 0.1)
TickPlaying ==
  /\ effect.instance \in effect.frames
  /\ closure.status = "playing"
  /\ used.flight < limits.flight \/ Draining
  /\ \E step \in {MaxDeltaMs, WAVE_DURATION_SEC * 1000}, gesture \in Gestures,
        spawn \in BOOLEAN, aim \in limits.aims, hand \in limits.hands,
        pointer \in limits.pointers, store \in limits.stores,
        j \in Jitters(shake) :
      /\ gesture # "Open_Palm" => aim = AimCentre
      /\ hand # "seen" => gesture = "None" /\ pointer = AimCentre
      /\ gameState.health > CollisionDamage => store = "ok"
      /\ step > MaxDeltaMs => gameState.wave < limits.wave
      /\ used.flight >= limits.flight =>
           /\ step = MaxDeltaMs /\ gesture = "None" /\ ~spawn
           /\ camera.z > 0 - DrainDepth
      /\ gesture = "Closed_Fist" => used.shots < limits.shots
      /\ gesture = "Open_Palm" => used.keys < limits.keys
      /\ LET delta == Min(step, MaxDeltaMs)
             cam1 == Shaken([camera EXCEPT !.z = @ - (FLIGHT_SPEED * delta) \div 100],
                           shake, j)
             charging == ~limits.app /\ closure.beamCharges < MAX_BEAM_CHARGES
             regen == charging /\ beamRegenTimer + delta >= BEAM_REGEN_MS
             rt == IF charging /\ ~regen THEN beamRegenTimer + delta ELSE 0
             B0 == [Bundle EXCEPT !.cursor = Lerp(@, target),
                                  !.shake = Decayed(@, delta),
                                  !.look = <<Lerp(cursor, target)>>,
                                  !.shot = Aged(@, step, REPULSOR_COOLDOWN_MS),
                                  !.fx = UpdatePools(@, delta, step),
                                  !.store = store]
             B1 == Poll(IF regen THEN setGameState(B0, Updater("regen", 0, NewCamera))
                        ELSE B0,
                        hand, pointer)
             remaining == Remaining(waveAge + step)
             waveDue == remaining <= 0
             wa == IF waveDue THEN 0
                   ELSE Aged(waveAge, step, WAVE_DURATION_SEC * 1000)
             wd == IF waveDue THEN 0 ELSE waveDt + delta
         IN \E hit \in 0 .. Len(enemies) :
              /\ hit # 0 => gesture = "Closed_Fist" /\ Hittable(enemies[hit].pos, cam1)
              /\ LET B2 == CASE gesture = "Closed_Fist" -> fireRepulsor(B1, hit)
                             [] gesture = "Open_Palm" -> triggerUnibeam(B1, cam1, aim)
                             [] OTHER -> B1
                     B3 == IF waveDue THEN setGameState(B2, Updater("wave", 0, NewCamera))
                           ELSE B2
                     B4 == IF spawn
                             THEN [B3 EXCEPT !.en = Append(@, SpawnedEnemy(nextId, cam1)),
                                             !.att = @ \cup {nextId},
                                             !.des = Append(@, 0),
                                             !.aw = Append(@, 0)]
                             ELSE B3
                 IN /\ spawn => /\ Len(B3.en) < TargetEnemyCount(closure.wave)
                                /\ Len(B3.en) < limits.live
                                /\ nextId <= limits.spawns
                    /\ \E B \in {B4} :
                       \E moves \in MoveChoices(B.en, cam1,
                                                IF spawn THEN Len(B.en) ELSE 0) :
                         Commit(EnemyLoop(B, Len(B.en), moves, cam1),
                                cam1, wa, wd, remaining, rt, timers,
                                IF spawn THEN nextId + 1 ELSE nextId,
                                [used EXCEPT !.flight = Min(@ + 1, limits.flight),
                                             !.shots = IF gesture = "Closed_Fist" THEN @ + 1 ELSE @,
                                             !.keys = IF gesture = "Open_Palm" THEN @ + 1 ELSE @],
                                "tick")

Next ==
  \/ StartGame
  \/ MouseDown
  \/ KeyDownSpace
  \/ TimerFires
  \/ TickIdle
  \/ TickPlaying

Init == InitWith(CoreLimits)

Spec == Init /\ [][Next]_vars

SpecLong == InitWith(LongLimits) /\ [][Next]_vars

\* Inputs of the collision test: offsets from the player and heights on,
\* just inside and well inside the bounds of the test.
ContactOffsets ==
  {0 - (pWidth + hitRadius), 1 - (pWidth + hitRadius), 0,
   pWidth + hitRadius - 1, pWidth + hitRadius}

ContactHeights ==
  {0 - hitRadius, 1 - hitRadius, 10, pHeight + hitRadius - 1, pHeight + hitRadius}

\* A game late in its first wave, after ContactFrames frames of MaxDeltaMs
\* each, with one enemy such that the next frame, which moves the camera by
\* FLIGHT_SPEED * delta, tests it at an offset of ContactOffsets and a height
\* of ContactHeights unless it moves.
InitContactAt(L, DX, DZ, Y) ==
  \E dx \in DX, dz \in DZ, y \in Y,
     h \in {CollisionDamage, StartHealth} :
    /\ gameState = [StartedGameState EXCEPT !.health = h]
    /\ closure = gameState
    /\ camera = [NewCamera EXCEPT
                   !.z = @ - ContactFrames * ((FLIGHT_SPEED * MaxDeltaMs) \div 100)]
    /\ enemies = <<[id |-> 1, hp |-> EnemyHp,
                    pos |-> [x |-> camera.x + dx, y |-> y,
                             z |-> camera.z - (FLIGHT_SPEED * MaxDeltaMs) \div 100 + dz]]>>
    /\ shotAge = REPULSOR_COOLDOWN_MS
    /\ waveAge = ContactFrames * MaxDeltaMs
    /\ waveDt = ContactFrames * MaxDeltaMs
    /\ timer = Remaining(waveAge)
    /\ beamRegenTimer = 0
    /\ effect = [instance |-> 2, listeners |-> {2}, frames |-> {2}, frameId |-> 2]
    /\ target = AimCentre
    /\ cursor = AimCentre
    /\ shake = 0
    /\ scene = {1}
    /\ timers = <<>>
    /\ nextId = 2
    /\ op = "tick"
    /\ emitted = {}
    /\ pools = [particles |-> <<>>, arcs |-> <<>>, texts |-> <<>>,
                shockwaves |-> <<>>, lines |-> <<>>]
    /\ probed = {}
    /\ lowHpPlays = 0
    /\ submits = 0
    /\ destroyed = <<0>>
    /\ awarded = <<0>>
    /\ seen = [repulsor |-> 0 - 1, unibeam |-> 0 - 1, beam |-> <<>>,
               hand |-> "unpolled", store |-> "uncalled", writes |-> 0,
               ray |-> <<>>, look |-> <<>>]
    /\ used = [flight |-> 0, keys |-> 0, shots |-> 0, games |-> 1, idle |-> 0, moves |-> 0]
    /\ limits = L

InitContactWith(L) == InitContactAt(L, ContactOffsets, ContactOffsets, ContactHeights)

InitContact == InitContactWith(ContactLimits)

SpecContact == InitContact /\ [][Next]_vars

SpecSwarm == InitWith(SwarmLimits) /\ [][Next]_vars

SpecArsenal == InitWith(ArsenalLimits) /\ [][Next]_vars

\* --------------------------------------------------------------- properties
\* what fireRepulsor and the updater of triggerUnibeam emit
RepulsorEffects == {"shoot", "muzzle", "hitMarker", "damageText", "hit", "flash"}
UnibeamEffects == {"beam", "arc", "shockwave", "line"}

\* the enemy is at distance >= 80 from the player
OutOfBlast(e) == ~InBlast(e.pos, camera)

SubmittedOncePerLife ==
  submits = IF gameState.status = "gameover" THEN 1 ELSE 0

\* C3: a fireRepulsor call that finds the last effective activation less than
\* 200 ms old emits nothing of its own and leaves the age of the last shot
\* as it found it; from a mouse press nothing else changes either.  Every
\* effective activation, from a mouse press or a Closed_Fist sample, found
\* the previous one at least 200 ms old, and restarts the age.
RepulsorCooldownHolds ==
  [][/\ (seen'.repulsor >= 0 /\ seen'.repulsor < REPULSOR_COOLDOWN_MS) =>
          /\ emitted' \cap RepulsorEffects = {}
          /\ shotAge' = seen'.repulsor
          /\ \A id \in DOMAIN awarded : awarded'[id] = awarded[id]
          /\ op' = "mouseDown" =>
               /\ emitted' = {}
               /\ UNCHANGED <<gameState, closure, enemies, camera, shotAge, waveAge,
                              beamRegenTimer, timers, nextId, submits, destroyed>>
     /\ "shoot" \in emitted' =>
          /\ seen'.repulsor >= REPULSOR_COOLDOWN_MS
          /\ shotAge' = 0]_vars

\* C3, reached: a mouse press 100 ms after an effective activation, with an
\* enemy alive, has just been ignored.
RepulsorCooldownReached ==
  /\ op = "mouseDown"
  /\ seen.repulsor = 100
  /\ shotAge = 100
  /\ enemies # <<>>

\* C4: a unibeam activation that finds beamCharges = 0 leaves GameState as it
\* was, removes no enemy, awards nothing and emits no beam, arc, shockwave,
\* shake or sound; from the Space key's timeout nothing else changes either.
UnibeamIgnoredWhenEmpty ==
  [][seen'.unibeam = 0 =>
       /\ emitted' \cap UnibeamEffects = {}
       /\ gameState'.beamCharges = 0
       /\ \A id \in DOMAIN awarded : awarded'[id] = awarded[id]
       /\ op' = "timer" =>
            /\ emitted' = {}
            /\ UNCHANGED <<gameState, closure, enemies, camera, shotAge, waveAge,
                           beamRegenTimer, nextId, submits, destroyed>>]_vars

\* C4, reached: the timeout of a Space press found no charge, with an enemy
\* alive.
UnibeamIgnoredReached ==
  /\ op = "timer"
  /\ seen.unibeam = 0
  /\ enemies # <<>>
  /\ gameState.status = "playing"

\* C5: a unibeam activation that finds beamCharges = c > 0 and the live
\* enemies E leaves exactly the enemies of E at distance >= 80 from the
\* player, adds 50 to score for every enemy removed and leaves c - 1 charges.
UnibeamClearsBlast ==
  [][seen'.unibeam > 0 =>
       /\ gameState'.beamCharges = seen'.unibeam - 1
       /\ op' = "timer" =>
            /\ enemies' = SelectSeq(enemies, OutOfBlast)
            /\ gameState'.score =
                 gameState.score + UnibeamPoints * (Len(enemies) - Len(enemies'))
       /\ (op' = "tick" /\ closure' = closure) =>
            \A i \in DOMAIN enemies' : ~InBlast(enemies'[i].pos, camera')]_vars

\* C6: every enemy is removed at most once and awards points at most once,
\* and an enemy that was removed is not in the live list any more, so no
\* later shot, beam, collision or despawn test finds it.
DestroyedAtMostOnce ==
  /\ \A id \in DOMAIN destroyed :
       destroyed[id] <= 1 /\ awarded[id] <= destroyed[id]
  /\ \A i \in DOMAIN enemies : destroyed[enemies[i].id] = 0
  /\ \A i, j \in DOMAIN enemies : enemies[i].id = enemies[j].id => i = j

\* C6, reached: one enemy was killed for points, another was removed without
\* points, and a third is alive for the tests that follow.
DestroyedAtMostOnceReached ==
  /\ \E a, b \in DOMAIN destroyed :
       awarded[a] = 1 /\ destroyed[b] = 1 /\ awarded[b] = 0
  /\ enemies # <<>>
  /\ op = "tick"

\* C7: while status stays gameover, health, score, wave and beamCharges do not
\* change, whatever handler runs.
FrozenAtGameOver ==
  [][(gameState.status = "gameover" /\ gameState'.status = "gameover") =>
       gameState' = gameState]_vars

\* C8: status changes only menu -> playing and gameover -> playing, both by
\* startGame, and playing -> gameover, by a collision of the tick that leaves
\* health <= 0.
StatusTransitions ==
  [][gameState'.status # gameState.status =>
       \/ /\ gameState.status \in {"menu", "gameover"}
          /\ gameState'.status = "playing"
          /\ op' = "startGame"
       \/ /\ gameState.status = "playing"
          /\ gameState'.status = "gameover"
          /\ op' = "tick"
          /\ "collision" \in emitted'
          /\ gameState'.health <= 0]_vars

\* C8, reached: a second game is being played, after menu -> playing ->
\* gameover -> playing.
StatusTransitionsReached ==
  /\ gameState.status = "playing"
  /\ used.games = 2
  /\ op = "tick"

\* C9: every playing tick that finds beamCharges < MAX_BEAM_CHARGES advances
\* the regen accumulator by the tick's dt, or, when that reaches 1000 ms,
\* adds a charge and resets the accumulator to 0.
RegenAdvances ==
  [][(/\ op' = "tick"
      /\ gameState.status = "playing"
      /\ gameState.beamCharges < MAX_BEAM_CHARGES) =>
       \/ beamRegenTimer' = beamRegenTimer + MaxDeltaMs
       \/ /\ beamRegenTimer + MaxDeltaMs >= BEAM_REGEN_MS
          /\ beamRegenTimer' = 0
          /\ seen'.unibeam < 0 =>
               gameState'.beamCharges = gameState.beamCharges + 1]_vars

\* C10: at the end of every playing tick with beamCharges = MAX_BEAM_CHARGES
\* the regen accumulator is 0.
NoBankedRegen ==
  (/\ op = "tick"
   /\ gameState.status = "playing"
   /\ gameState.beamCharges = MAX_BEAM_CHARGES) => beamRegenTimer = 0

\* a playing tick in which animate finds the regen accumulator due and queues
\* the regeneration updater
RegenDue ==
  /\ op' = "tick"
  /\ closure.status = "playing"
  /\ closure.beamCharges < MAX_BEAM_CHARGES
  /\ beamRegenTimer + MaxDeltaMs >= BEAM_REGEN_MS

\* C11: beamCharges changes only by +1 on a regen step, by -1 on an effective
\* unibeam activation (which found it > 0), or to 5 by startGame; mouse
\* presses, kills, collisions, despawns and wave increments leave it alone.
BeamChargeChanges ==
  [][gameState'.beamCharges # gameState.beamCharges =>
       \/ /\ op' = "startGame"
          /\ gameState'.beamCharges = 5
       \/ /\ RegenDue
          /\ seen'.unibeam < 0
          /\ gameState'.beamCharges = gameState.beamCharges + 1
       \/ /\ seen'.unibeam > 0
          /\ op' \in {"timer", "tick"}
          /\ seen'.unibeam =
               IF RegenDue THEN Min(gameState.beamCharges + 1, MAX_BEAM_CHARGES)
               ELSE gameState.beamCharges
          /\ gameState'.beamCharges = seen'.unibeam - 1]_vars

\* C11, reached: a regen step has just restored the charge a unibeam
\* activation spent, in a game in which an enemy was removed.
BeamChargeChangesReached ==
  /\ op = "tick"
  /\ gameState.beamCharges = MAX_BEAM_CHARGES
  /\ closure.beamCharges = MAX_BEAM_CHARGES - 1
  /\ beamRegenTimer = 0
  /\ \E id \in DOMAIN destroyed : destroyed[id] = 1

\* C12: the wave counter increments exactly once, in the playing tick in
\* which the tick deltas summed since the wave began reach WAVE_DURATION_SEC
\* and in no earlier one; the wave timer then restarts, and the remaining
\* time shown is never negative.
WaveBySummedDelta ==
  [][(op' = "tick" /\ closure.status = "playing") =>
       /\ timer' >= 0
       /\ gameState'.wave # gameState.wave <=>
            waveDt + MaxDeltaMs >= WAVE_DURATION_SEC * 1000
       /\ gameState'.wave # gameState.wave =>
            /\ gameState'.wave = gameState.wave + 1
            /\ waveAge' = 0
            /\ waveDt' = 0]_vars

\* C13: the collision test is boundary-exclusive: an enemy tested at a
\* lateral or depth offset of exactly pWidth + hitRadius (pDepth + hitRadius),
\* or at a height of exactly pHeight + hitRadius or -hitRadius, does not
\* collide, and an enemy collides only if it is strictly inside on all three
\* axes at once.
CollisionBoundaryExclusive ==
  /\ (\E t \in probed : t.hit) <=> "collision" \in emitted
  /\ \A t \in probed :
      /\ (\/ Abs(t.x) = pWidth + hitRadius
          \/ Abs(t.z) = pDepth + hitRadius
          \/ t.y = pHeight + hitRadius
          \/ t.y = 0 - hitRadius) => ~t.hit
      /\ t.hit => /\ 0 - (pWidth + hitRadius) < t.x /\ t.x < pWidth + hitRadius
                  /\ 0 - (pDepth + hitRadius) < t.z /\ t.z < pDepth + hitRadius
                  /\ 0 - hitRadius < t.y /\ t.y < pHeight + hitRadius

\* C13, reached: a frame tested an enemy exactly on the lateral bound and
\* strictly inside on the other two axes, and it did not collide.
CollisionBoundaryReached ==
  /\ op = "tick"
  /\ \E t \in probed :
       /\ t.x = pWidth + hitRadius
       /\ t.z = 0
       /\ t.y = 10
       /\ ~t.hit
  /\ Len(enemies) = 1

\* the enemies the collision test of the handler found colliding
Collided == {t \in probed : t.hit}

\* C14: every collision of a playing tick removes that enemy (and, with no
\* weapon used and nothing despawned, no other), awards nothing for it, takes
\* exactly CollisionDamage off health, floored at 0, and shakes the camera;
\* the status becomes gameover if and only if the resulting health is 0 or less.
CollisionOutcome ==
  [][(op' = "tick" /\ closure.status = "playing" /\ Collided' # {}) =>
       /\ \A t \in Collided' :
            /\ \A i \in DOMAIN enemies' : enemies'[i].id # t.id
            /\ t.id \in DOMAIN destroyed => destroyed'[t.id] = destroyed[t.id] + 1
            /\ awarded'[t.id] = 0
       /\ (seen'.repulsor < 0 /\ seen'.unibeam < 0) =>
            /\ gameState'.score = gameState.score
            /\ {enemies'[i].id : i \in DOMAIN enemies'} =
                 {t.id : t \in {u \in probed' : ~u.hit /\ ~(u.z > DespawnDistance)}}
       /\ gameState'.health =
            Max(0, gameState.health - CollisionDamage * Cardinality(Collided'))
       /\ "shake" \in emitted'
       /\ gameState'.status = "gameover" <=> gameState'.health <= 0]_vars

\* C14, reached: two enemies collided with the player in one tick, with no
\* weapon used, and the game ended.
CollisionOutcomeReached ==
  /\ op = "tick"
  /\ Cardinality(Collided) = 2
  /\ gameState.status = "gameover"
  /\ seen.repulsor < 0
  /\ seen.unibeam < 0

\* the effects of a pool whose life a frame of MaxDeltaMs brings to 0 or below
Expiring(pool, dec) == {i \in DOMAIN pool : pool[i] - dec <= 0}

\* the effects of a pool that were there before the frame that ended
Older(pool, life) == SelectSeq(pool, LAMBDA l : l < life)

\* C15: in every tick, playing or not, each particle, electrical arc and
\* damage text whose decremented life reaches 0 or below leaves its pool in
\* that tick, the pool shrinks by exactly one per expired effect, the others
\* stay with their decremented life, and no effect with life 0 or below is in
\* a pool when the tick ends.
EffectsExpire ==
  [][op' = "tick" =>
       /\ Older(pools'.particles, ParticleLife + Rounding) =
            SelectSeq([i \in DOMAIN pools.particles |->
                         pools.particles[i] - MaxDeltaMs * ParticleFade],
                      LAMBDA l : l > 0)
       /\ Len(Older(pools'.particles, ParticleLife + Rounding)) =
            Len(pools.particles)
              - Cardinality(Expiring(pools.particles, MaxDeltaMs * ParticleFade))
       /\ Len(Older(pools'.arcs, ArcLife)) =
            Len(pools.arcs) - Cardinality(Expiring(pools.arcs, MaxDeltaMs))
       /\ Len(Older(pools'.texts, TextLife + Rounding)) =
            Len(pools.texts) - Cardinality(Expiring(pools.texts, MaxDeltaMs))
       /\ \A i \in DOMAIN pools'.particles : pools'.particles[i] > 0
       /\ \A i \in DOMAIN pools'.arcs : pools'.arcs[i] > 0
       /\ \A i \in DOMAIN pools'.texts : pools'.texts[i] > 0]_vars

\* C15, reached: the electrical arcs of a unibeam activation have just
\* expired, on a life of exactly 0, two frames after it, while the damage text
\* of an enemy it destroyed is still shown.
EffectsExpireReached ==
  /\ op = "tick"
  /\ pools.arcs = <<>>
  /\ pools.texts = <<TextLife + Rounding - 2 * MaxDeltaMs>>
  /\ gameState.score = UnibeamPoints
  /\ gameState.beamCharges = MAX_BEAM_CHARGES - 1

\* C16: startGame, from the menu and from game over alike, leaves status
\* playing, health 100, score 0, wave 1, beamCharges 5, no live enemy, the
\* regen accumulator at 0, the wave timer restarted at now and the camera at
\* its start pose.
StartGameResets ==
  [][op' = "startGame" =>
       /\ gameState.status \in {"menu", "gameover"}
       /\ gameState' = [status |-> "playing", health |-> 100, score |-> 0,
                        wave |-> 1, beamCharges |-> 5]
       /\ enemies' = <<>>
       /\ beamRegenTimer' = 0
       /\ waveAge' = 0
       /\ camera' = [x |-> 0, y |-> PLAYER_HEIGHT, z |-> 0]]_vars

\* C16, reached: a second game has just been started from game over, the
\* first one having been started from the menu and lost to spawned enemies.
StartGameResetsReached ==
  /\ op = "startGame"
  /\ used.games = 2
  /\ nextId > 1
  /\ \E id \in DOMAIN destroyed : destroyed[id] > 0

\* C17: within one game the score never goes down: every step other than a
\* startGame leaves it as it was or raises it.
ScoreNeverDrops ==
  [][op' # "startGame" => gameState'.score >= gameState.score]_vars

\* C17, reached: a game in which a repulsor kill and a unibeam kill have both
\* been scored, and a collision has taken health since.
ScoreNeverDropsReached ==
  /\ gameState.score = RepulsorPoints + UnibeamPoints
  /\ gameState.health < StartHealth
  /\ op = "tick"

\* C18: an enemy is spawned only by a playing tick, at most one a tick, and
\* only while the live count (after a repulsor kill of that tick) is below
\* min(15, 2 + 2 * wave); the live count never exceeds min(15, 2 + 2 * wave),
\* nor 15.
SpawnCapped ==
  [][/\ nextId' # nextId =>
          /\ op' = "tick"
          /\ closure.status = "playing"
          /\ nextId' = nextId + 1
          /\ Len(enemies) - (IF "hit" \in emitted' THEN 1 ELSE 0)
               < Min(15, 2 + 2 * gameState.wave)
     /\ Len(enemies') <= Min(15, 2 + 2 * gameState'.wave)
     /\ Len(enemies') <= 15]_vars

\* C18, reached: a playing tick of the first wave began with four live
\* enemies and spawned none, with spawns and room in the budget left.
SpawnCappedReached ==
  /\ op = "tick"
  /\ closure.status = "playing"
  /\ Len(enemies) = 2 + 2 * gameState.wave
  /\ nextId = 5
  /\ used.flight = 5
  /\ seen.unibeam < 0
  /\ \A id \in DOMAIN destroyed : destroyed[id] = 0

\* C19: low_hp plays exactly once in a life, in the collision that takes
\* health from above 20 to 20, and neither again in that life nor in the
\* collision that takes health to 0.
LowHpOncePerLife ==
  [][/\ lowHpPlays' = (IF gameState'.health <= 20 THEN 1 ELSE 0)
     /\ "low_hp" \in emitted' =>
          /\ "collision" \in emitted'
          /\ gameState.health > 20
          /\ gameState'.health <= 20
          /\ lowHpPlays = 0
     /\ (op' = "tick" /\ gameState.health <= 20 /\ gameState'.health = 0) =>
          "low_hp" \notin emitted']_vars

\* C19, reached: low_hp has played in an earlier tick of this life, and the
\* collision of this tick took health from 20 to 0 without playing it.
LowHpOncePerLifeReached ==
  /\ op = "tick"
  /\ "collision" \in emitted
  /\ "low_hp" \notin emitted
  /\ gameState.health = 0
  /\ Cardinality(Collided) = 1
  /\ lowHpPlays = 1

\* what an activation of the unibeam with the pointer at aim, by the effect
\* instance whose camera is cam, makes of the present state
Activated(cam, aim) == Flush(triggerUnibeam(Bundle, cam, aim))

\* C20: the hit test of the unibeam is centred on the player and not gated by
\* the aim: in any state, activations that differ only in the pointer sample
\* the beam is aimed with destroy the same enemies and leave the same score
\* and beamCharges.
UnibeamIgnoresAim ==
  \A cam \in {camera} \cup {timers[i].camera : i \in DOMAIN timers} :
    \A a1 \in Aims, a2 \in Aims :
      /\ Activated(cam, a1).en = Activated(cam, a2).en
      /\ Activated(cam, a1).des = Activated(cam, a2).des
      /\ Activated(cam, a1).gs.score = Activated(cam, a2).gs.score
      /\ Activated(cam, a1).gs.beamCharges = Activated(cam, a2).gs.beamCharges

\* C20, reached: a unibeam aimed near the top left corner destroyed an enemy
\* that was to the right of the player, on the lateral bound of the collision
\* test.
UnibeamIgnoresAimReached ==
  /\ op = "tick"
  /\ seen.unibeam > 0
  /\ seen.beam = <<[x |-> 100, y |-> 100]>>
  /\ \E t \in probed :
       /\ t.x = pWidth + hitRadius
       /\ ~t.hit
       /\ awarded[t.id] = 1
  /\ gameState.score = UnibeamPoints

\* C21: once the effect has been torn down, by a re-run, nothing of the old
\* instance is left armed: the only listeners registered and the only frame
\* pending are those of the live instance, so every tick and every input
\* handler that runs belongs to it.
TeardownCancels ==
  /\ effect.listeners = {effect.instance}
  /\ effect.frames = {effect.instance}
  /\ effect.frameId = effect.instance

\* C21, reached: a frame of the fourth instance of the effect has run, after
\* the teardowns at the start of a game, at a new wave or a game over, and at
\* one more change of status or wave.
TeardownCancelsReached ==
  /\ op = "tick"
  /\ effect.instance >= 4

\* C22: right after startGame every effect pool is empty: the particles, the
\* damage texts, the electrical arcs, the shockwaves and the transient beams.
StartGameClearsEffects ==
  op = "startGame" =>
    /\ pools.particles = <<>>
    /\ pools.texts = <<>>
    /\ pools.arcs = <<>>
    /\ pools.shockwaves = <<>>
    /\ pools.lines = <<>>

\* C23: gesture firing is edge-triggered: when two consecutive frames both
\* sample Open_Palm, the second sample consumes no unibeam charge, and when
\* both sample Closed_Fist the second fires no effective shot.
GestureEdgeTriggered ==
  [][(op = "tick" /\ op' = "tick") =>
       /\ (seen.unibeam >= 0 /\ seen'.unibeam >= 0) =>
            gameState'.beamCharges >= gameState.beamCharges
       /\ (seen.repulsor >= 0 /\ seen'.repulsor >= 0) =>
            CooldownActive(seen'.repulsor)]_vars

\* C24: a frame removes exactly the transient beams that have run out: a
\* repulsor beam or glow beam once more than 100 ms have passed since it was
\* pushed, the main beam of the unibeam once more than 500 ms have passed;
\* the beams left in the pool after the frame are the others, in order, and
\* behind them the beams the frame itself pushed.
BeamsExpireOnTime ==
  [][op' = "tick" =>
       \E step \in {MaxDeltaMs, WAVE_DURATION_SEC * 1000} :
         LET aged == [i \in DOMAIN pools.lines |->
                        [pools.lines[i] EXCEPT !.age = @ + step]]
             kept == SelectSeq(aged, LAMBDA l :
                       l.age <= (IF l.kind = "unibeam" THEN BeamHold ELSE BeamLife))
         IN /\ Len(pools'.lines) >= Len(kept)
            /\ SubSeq(pools'.lines, 1, Len(kept)) = kept
            /\ \A i \in Len(kept) + 1 .. Len(pools'.lines) :
                 pools'.lines[i].age = 0]_vars

\* C25: after a frame, every particle, damage text and shockwave that is still
\* in its pool is drawn with an opacity above 0 (a particle and a damage text
\* with their life, a shockwave with max(0, 0.9 - life * 0.4)).
OpacityPositive ==
  op = "tick" =>
    /\ \A i \in DOMAIN pools.particles : pools.particles[i] > 0
    /\ \A i \in DOMAIN pools.texts : pools.texts[i] > 0
    /\ \A i \in DOMAIN pools.shockwaves : ShockwaveOpacity(pools.shockwaves[i]) > 0

\* C26: while the status stays playing, the forward coordinate of the player
\* changes only by the advance of a frame, FLIGHT_SPEED times its delta, and
\* by nothing else: not by a new wave, a score, a hit, a charge or an input.
ForwardOnlyByAdvance ==
  [][(gameState.status = "playing" /\ gameState'.status = "playing") =>
       camera'.z = IF op' = "tick"
                   THEN camera.z - (FLIGHT_SPEED * MaxDeltaMs) \div 100
                   ELSE camera.z]_vars

\* C27: the steps of a frame run in the order enemy manager (spawn, steer,
\* collide), then the fire of the gesture, then the effect pools: the spawn
\* of a frame is decided on the enemy list as the frame found it, before the
\* shot of that frame can remove an enemy from it.
EnemiesBeforeFire ==
  [][(op' = "tick" /\ nextId' # nextId) =>
       Len(enemies) < TargetEnemyCount(closure.wave)]_vars

\* C28: an effective repulsor shot (a click outside the cooldown) touches at
\* most one enemy: on a kill exactly that enemy leaves the list and the score
\* rises by exactly RepulsorPoints; on a miss the list and the score stay as
\* they are; health, wave, status and charges are never changed by it.
RepulsorAffectsOne ==
  [][(op' = "mouseDown" /\ ~CooldownActive(seen'.repulsor)) =>
       /\ gameState'.health = gameState.health
       /\ gameState'.wave = gameState.wave
       /\ gameState'.status = gameState.status
       /\ gameState'.beamCharges = gameState.beamCharges
       /\ IF "hit" \in emitted'
            THEN /\ \E i \in DOMAIN enemies : enemies' = Splice(enemies, i)
                 /\ gameState'.score = gameState.score + RepulsorPoints
            ELSE /\ enemies' = enemies
                 /\ gameState'.score = gameState.score]_vars

\* C28, reached: a click has killed one enemy for RepulsorPoints and left
\* another one in the list.
RepulsorAffectsOneReached ==
  /\ op = "mouseDown"
  /\ "explosion" \in emitted
  /\ gameState.score >= RepulsorPoints
  /\ enemies # <<>>

\* C29: a deferred callback that fires after the effect instance that set it
\* was torn down, by a restart, a game over or a new wave, does nothing: the
\* Space-key timeout of a torn-down instance leaves the game state and the
\* enemy list as they are.
StaleTimerInert ==
  [][(op' = "timer" /\ timers # <<>> /\ Head(timers).stale) =>
       /\ gameState' = gameState
       /\ enemies' = enemies]_vars

\* A game as in InitContact where the recognizer, the video and the score
\* store can be missing or fail, and the mouse moves the pointer.
NextDegraded ==
  \/ Next
  \/ MouseMove

SpecDegraded == InitContactWith(DegradedLimits) /\ [][NextDegraded]_vars

\* C30: a frame whose recognizer poll is not possible or finds no hand leaves
\* the aim target at its last sample and fires no weapon; a frame whose
\* submitScore finds no database or user, or whose write fails, ends the game
\* as any other, makes at most the one write per call and leaves the next
\* frame requested.
CollaboratorsDegrade ==
  [][op' = "tick" =>
       /\ seen'.hand \in {"unavailable", "none"} =>
            /\ target' = target
            /\ seen'.repulsor < 0
            /\ seen'.unibeam < 0
       /\ seen'.store \in {"absent", "failing"} =>
            /\ gameState'.status = "gameover"
            /\ gameState'.health = 0
            /\ seen'.writes = IF seen'.store = "absent" THEN 0 ELSE submits' - submits
            /\ effect'.instance \in effect'.frames]_vars

\* C30, reached: the pointer was moved off the centre, then a frame without a
\* hand ended the game and its score write failed.
CollaboratorsDegradeReached ==
  /\ op = "tick"
  /\ seen.hand = "none"
  /\ target # AimCentre
  /\ seen.store = "failing"
  /\ gameState.status = "gameover"

\* C31: the weapons aim with the smoothed pointer sample only: a pointer move
\* and a recognizer sample leave it alone; a frame, playing or not, moves it
\* 15 hundredths of the way to the raw sample it found, whatever its delta;
\* and the ray of a repulsor shot, the ray of a unibeam and the turn of the
\* camera read the smoothed sample as that handler has it.
AimsWithSmoothed ==
  [][/\ op' # "tick" => cursor' = cursor
     /\ op' = "tick" =>
          cursor' = [x |-> cursor.x + (SmoothingPercent * (target.x - cursor.x)) \div 100,
                     y |-> cursor.y + (SmoothingPercent * (target.y - cursor.y)) \div 100]
     /\ seen'.ray # <<>> => seen'.ray = <<cursor'>>
     /\ seen'.beam # <<>> => seen'.beam = <<cursor'>>
     /\ seen'.look # <<>> => seen'.look = <<cursor'>>]_vars

\* C31, reached: a frame has fired a repulsor shot while the smoothed sample
\* was on its way from the centre to a raw sample elsewhere.
AimsWithSmoothedReached ==
  /\ op = "tick"
  /\ seen.ray # <<>>
  /\ cursor # AimCentre
  /\ cursor # target

SpecShake == InitWith(ShakeLimits) /\ [][Next]_vars

\* C32: the shake intensity stays between 0 and ShakeCap: a frame first
\* lowers it by ShakeDecay times its delta and not below 0, a handler that
\* bumps it then raises it by at least the smallest bump and not above
\* ShakeCap, anything else leaves it alone; and a frame that starts with
\* intensity 0 puts the camera at lateral position 0 and at PLAYER_HEIGHT.
ShakeInRange ==
  /\ shake \in 0 .. ShakeCap
  /\ [][LET base == IF op' = "tick" THEN Max(0, shake - MaxDeltaMs * ShakeDecay)
                    ELSE shake
        IN /\ shake' \in 0 .. ShakeCap
           /\ "shake" \in emitted' => shake' >= Min(base + RepulsorShake, ShakeCap)
           /\ "shake" \notin emitted' => shake' = base
           /\ (op' = "tick" /\ shake = 0) =>
                /\ camera'.x = 0
                /\ camera'.y = PLAYER_HEIGHT]_vars

\* C32, reached: after a unibeam shook the camera the intensity has decayed
\* to 0 and a frame has left the camera on its rail.
ShakeInRangeReached ==
  /\ op = "tick"
  /\ shake = 0
  /\ camera.x = 0
  /\ camera.y = PLAYER_HEIGHT
  /\ gameState.beamCharges < MAX_BEAM_CHARGES
  /\ gameState.status = "playing"
  /\ used.flight >= 5

\* the machine with the charge logic of src/App.tsx: no charge at the start,
\* one for every destroyEnemy, none regenerated, the unibeam needs all of them
SpecOriginal == InitWith(OriginalLimits) /\ [][Next]_vars

\* animate requests its next frame as its first statement, in every status,
\* and every instance of the effect requests a first one: a frame is always
\* pending and the browser runs it
SpecDrain ==
  /\ InitContactAt(DrainLimits, {0}, ContactOffsets, {10})
  /\ [][Next]_vars
  /\ WF_vars(TickIdle)
  /\ WF_vars(TickPlaying)

SpecPassing == InitWith(PassingLimits) /\ [][Next]_vars

\* the enemies the handler found not colliding and past the despawn distance
Despawned == {t \in probed : ~t.hit /\ t.z > DespawnDistance}

\* the enemies the handler found not colliding and exactly at that distance
AtDespawnEdge == {t \in probed : ~t.hit /\ t.z = DespawnDistance}

\* C33: an enemy a playing tick finds not colliding and more than
\* DespawnDistance behind the camera is removed in that tick and nothing is
\* awarded for it; when nothing else happened in the tick (no collision, no
\* weapon, no charge regenerated) score, health, beamCharges and status are
\* unchanged and there is no explosion; an enemy exactly DespawnDistance
\* behind is kept.
DespawnHarmless ==
  [][(op' = "tick" /\ closure.status = "playing") =>
       /\ \A t \in Despawned' :
            /\ \A i \in DOMAIN enemies' : enemies'[i].id # t.id
            /\ awarded'[t.id] = 0
       /\ (/\ Despawned' # {}
           /\ Collided' = {}
           /\ seen'.repulsor < 0
           /\ seen'.unibeam < 0
           /\ gameState.beamCharges >= MAX_BEAM_CHARGES \/ beamRegenTimer' > 0) =>
            /\ gameState'.score = gameState.score
            /\ gameState'.health = gameState.health
            /\ gameState'.beamCharges = gameState.beamCharges
            /\ gameState'.status = gameState.status
            /\ "explosion" \notin emitted'
       /\ seen'.unibeam < 0 =>
            \A t \in AtDespawnEdge' : \E i \in DOMAIN enemies' : enemies'[i].id = t.id]_vars

\* C33, reached: a playing tick removed an enemy that had passed the player
\* and kept one that was exactly DespawnDistance behind, at full health.
DespawnHarmlessReached ==
  /\ op = "tick"
  /\ Despawned # {}
  /\ AtDespawnEdge # {}
  /\ Collided = {}
  /\ Len(enemies) >= 1
  /\ gameState.health = StartHealth
  /\ gameState.status = "playing"

\* C34: in the src/App.tsx variant an activation of the unibeam that finds
\* beamCharges > 0 leaves one charge less, and a mouse press, whether its
\* repulsor shot kills or not, leaves beamCharges as it was.
OriginalChargeMachine ==
  [][/\ seen'.unibeam > 0 => gameState'.beamCharges = seen'.unibeam - 1
     /\ op' = "mouseDown" => gameState'.beamCharges = gameState.beamCharges]_vars

\* C35: every tick starts with the handles of exactly the live enemies in the
\* scene that is rendered.
EnemiesInRenderedScene ==
  [][op' = "tick" => scene = {enemies[i].id : i \in DOMAIN enemies}]_vars

\* C36: status and health agree in every state: status is gameover exactly
\* when health is 0, and while status is playing health is StartHealth less a
\* whole number of collisions, from CollisionDamage up to StartHealth.
StatusAgreesWithHealth ==
  /\ gameState.status = "gameover" <=> gameState.health = 0
  /\ gameState.status = "playing" =>
       gameState.health \in {StartHealth - k * CollisionDamage :
                               k \in 0 .. (StartHealth \div CollisionDamage) - 1}

\* C36, reached: the collision that took the last of the health has just
\* ended a game in which a charge had been spent.
StatusAgreesWithHealthReached ==
  /\ op = "tick"
  /\ gameState.status = "gameover"
  /\ gameState.health = 0
  /\ closure.status = "gameover"
  /\ gameState.beamCharges < MAX_BEAM_CHARGES

\* C37: at most one animation frame is pending at any time, and every tick
\* is the callback of the only pending frame, requested by the live instance
\* of the effect, and leaves exactly one frame pending, whether or not it
\* makes the effect run again.
OneAnimationLoop ==
  /\ Cardinality(effect.frames) <= 1
  /\ [][op' = "tick" =>
          /\ effect.frames = {effect.instance}
          /\ Cardinality(effect'.frames) = 1
          /\ effect'.frames = {effect'.instance}]_vars

\* C37, reached: a tick has run after the effect was set up again both for a
\* change of status and for a wave increment, with one frame pending.
OneAnimationLoopReached ==
  /\ op = "tick"
  /\ gameState.wave >= 2
  /\ effect.instance >= 3
  /\ closure.wave = gameState.wave
  /\ Cardinality(effect.frames) = 1

\* C38: with frames that keep coming, whenever a pool holds an effect there
\* comes a state in which no pool holds any: every particle, electrical arc,
\* damage text, shockwave and transient beam is removed in the end, whatever
\* the status and however often the effect is set up again.
EffectsDrain == ~NoEffect ~> NoEffect

\* C38, reached: frames after game over, past the frame budget, have emptied
\* every pool of the effects of a collision and of a unibeam activation.
EffectsDrainReached ==
  /\ op = "tick"
  /\ closure.status = "gameover"
  /\ used.idle = limits.idle
  /\ used.keys = 1
  /\ gameState.beamCharges < MAX_BEAM_CHARGES
  /\ "explosion" \notin emitted
  /\ NoEffect

\* the awards recorded in a log
RECURSIVE Total(_)
Total(log) == IF log = <<>> THEN 0 ELSE Head(log) + Total(Tail(log))

\* C39: every update a handler queues is applied by the render that follows
\* it: score rises by RepulsorPoints for every repulsor kill and by
\* UnibeamPoints for every unibeam kill of the handler, health falls by
\* CollisionDamage for every collision, to 0 at least, wave rises by one if
\* the wave timer ran out, and beamCharges takes the regenerated charge and
\* then gives the one an effective unibeam spends.
BatchApplied ==
  [][op' # "startGame" =>
       /\ gameState'.score =
            gameState.score
              + (Total(awarded') - Total(awarded))
                  * (IF seen'.unibeam > 0 THEN UnibeamPoints ELSE RepulsorPoints)
       /\ gameState'.health =
            Max(0, gameState.health - CollisionDamage * Cardinality(Collided'))
       /\ gameState'.wave =
            gameState.wave
              + (IF op' = "tick" /\ closure.status = "playing" /\ waveAge' = 0
                   THEN 1 ELSE 0)
       /\ gameState'.beamCharges =
            LET regenerated == IF RegenDue
                                 THEN Min(gameState.beamCharges + 1, MAX_BEAM_CHARGES)
                                 ELSE gameState.beamCharges
            IN IF seen'.unibeam > 0 THEN regenerated - 1 ELSE regenerated]_vars

\* C39, reached: one tick has killed an enemy with the only repulsor shot of
\* the game and let another enemy collide with the player: the points of the
\* kill and the damage of the collision are both there.
BatchAppliedReached ==
  /\ op = "tick"
  /\ Collided # {}
  /\ seen.repulsor >= 0
  /\ used.shots = 1
  /\ "shoot" \in emitted
  /\ gameState.score = RepulsorPoints
  /\ gameState.health = StartHealth - CollisionDamage

====
